---- MODULE Spec2Model ----
(***************************************************************************)
(* JD79661 four-colour e-paper driver and its DisplayBuffer (src/lib.rs).  *)
(*                                                                         *)
(* DisplayBuffer: three packed bitplanes of BUF_SIZE bytes, written by     *)
(* draw_iter and clear (SpecBuf); the address computation shared by        *)
(* draw_iter and update_frames (SpecAddr).                                 *)
(* Jd79661: new, update_frames and display_frame as sequences of pin, SPI, *)
(* delay and busy-line calls, one call per step (SpecDriver).              *)
(***************************************************************************)
EXTENDS Integers, Sequences, FiniteSets, TLC

\* ---------------------------------------------------------------------
\* Program constants (lib.rs:187-189) and the colour enum (lib.rs:220-225)
\* ---------------------------------------------------------------------
WIDTH == 250

HEIGHT == 122

\* variant: the size is rounded down
BufSizeFloor == (WIDTH * HEIGHT) \div 8

BUF_SIZE == (WIDTH * HEIGHT + 7) \div 8

QuadColor == {"Black", "White", "Red", "Yellow"}

\* ---------------------------------------------------------------------
\* u8 bit operations used on plane bytes
\* ---------------------------------------------------------------------
\* (b >> bit) & 1
GetBit(b, bit) == (b \div (2 ^ bit)) % 2

\* variant: the bit is not set before the colour is applied
OrBitNop(b, bit) == b

\* variant: ^= in place of |=
OrBitXor(b, bit) == IF GetBit(b, bit) = 1 THEN b - 2 ^ bit ELSE b + 2 ^ bit

\* b | (1 << bit)
OrBit(b, bit) == IF GetBit(b, bit) = 1 THEN b ELSE b + 2 ^ bit

\* b & !(1 << bit)
AndNotBit(b, bit) == IF GetBit(b, bit) = 1 THEN b - 2 ^ bit ELSE b

\* ---------------------------------------------------------------------
\* DisplayBuffer
\* ---------------------------------------------------------------------
\* A plane is a [u8; BUF_SIZE].  It is kept as the function from the
\* indices of its bytes that differ from 0xFF to those bytes; every other
\* byte of 0 .. BUF_SIZE-1 is 0xFF.
Load(plane, idx) == IF idx \in DOMAIN plane THEN plane[idx] ELSE 255

Store(plane, idx, b) ==
    LET dom == IF b = 255 THEN DOMAIN plane \ {idx} ELSE DOMAIN plane \cup {idx}
    IN [i \in dom |-> IF i = idx THEN b ELSE plane[i]]

\* [0xFF; BUF_SIZE]
Filled == [i \in {} |-> 255]

\* DisplayBuffer::new
NewBuffer == [bw |-> Filled, red |-> Filled, yellow |-> Filled]

\* variant: one plane is not refilled
ClearBufferPartial(d) == [bw |-> Filled, red |-> Filled, yellow |-> d.yellow]

\* DisplayBuffer::clear
ClearBuffer(d) == [bw |-> Filled, red |-> Filled, yellow |-> Filled]

\* variant: <= in place of < on x
InBoundsInclusive(x, y) == x >= 0 /\ x <= WIDTH /\ y >= 0 /\ y < HEIGHT

\* the bounds check of draw_iter
InBounds(x, y) == x >= 0 /\ x < WIDTH /\ y >= 0 /\ y < HEIGHT

\* idx and bit as draw_iter computes them
DrawIdx(x, y) == (y * WIDTH + x) \div 8

\* variant: LSB-first packing
DrawBitLsb(x) == x % 8

DrawBit(x) == 7 - (x % 8)

\* the match on the colour: which plane bit is cleared
PlaneOf(color) ==
    CASE color = "Black" -> "bw"
      [] color = "Red" -> "red"
      [] color = "Yellow" -> "yellow"
      [] OTHER -> "none"

\* variant: the three bits are not set before the colour's bit is cleared
DrawPixelNoReset(d, px) ==
    IF InBounds(px.x, px.y)
    THEN LET idx == DrawIdx(px.x, px.y)
             bit == DrawBit(px.x)
             pl == PlaneOf(px.color)
         IN [bw |-> Store(d.bw, idx,
                        IF pl = "bw" THEN AndNotBit(Load(d.bw, idx), bit)
                        ELSE Load(d.bw, idx)),
             red |-> Store(d.red, idx,
                        IF pl = "red" THEN AndNotBit(Load(d.red, idx), bit)
                        ELSE Load(d.red, idx)),
             yellow |-> Store(d.yellow, idx,
                        IF pl = "yellow" THEN AndNotBit(Load(d.yellow, idx), bit)
                        ELSE Load(d.yellow, idx))]
    ELSE d

\* one iteration of the loop of draw_iter: Pixel(point, color)
DrawPixel(d, px) ==
    IF InBounds(px.x, px.y)
    THEN LET idx == DrawIdx(px.x, px.y)
             bit == DrawBit(px.x)
             bw1 == OrBit(Load(d.bw, idx), bit)
             red1 == OrBit(Load(d.red, idx), bit)
             yellow1 == OrBit(Load(d.yellow, idx), bit)
             pl == PlaneOf(px.color)
         IN [bw |-> Store(d.bw, idx,
                        IF pl = "bw" THEN AndNotBit(bw1, bit) ELSE bw1),
             red |-> Store(d.red, idx,
                        IF pl = "red" THEN AndNotBit(red1, bit) ELSE red1),
             yellow |-> Store(d.yellow, idx,
                        IF pl = "yellow" THEN AndNotBit(yellow1, bit) ELSE yellow1)]
    ELSE d

\* draw_iter: the loop over the pixel iterator, in order
RECURSIVE DrawIter(_, _)
DrawIter(d, pixels) ==
    IF pixels = << >> THEN d
    ELSE DrawIter(DrawPixel(d, Head(pixels)), Tail(pixels))

\* idx and bit as update_frames computes them for buffer pixel (x, y)
FrameIdx(x, y) == (y * WIDTH + x) \div 8

\* variant: update_frames reads the planes least significant bit first
FrameBitLsb(x) == x % 8

FrameBit(x) == 7 - (x % 8)

\* variant: Black is tested before Red and Yellow
ColorBitsBlackFirst(bw, red, yellow) ==
    IF bw = 0 THEN 0
    ELSE IF red = 0 THEN 3
    ELSE IF yellow = 0 THEN 2
    ELSE 1

\* the 2-bit code update_frames derives from the three plane bits
ColorBits(bw, red, yellow) ==
    IF red = 0 THEN 3
    ELSE IF yellow = 0 THEN 2
    ELSE IF bw = 0 THEN 0
    ELSE 1

\* the code update_frames reads at buffer pixel (x, y)
PixelCode(d, x, y) ==
    LET idx == FrameIdx(x, y)
        bit == FrameBit(x)
    IN ColorBits(GetBit(Load(d.bw, idx), bit), GetBit(Load(d.red, idx), bit),
                 GetBit(Load(d.yellow, idx), bit))

\* wire code of a colour: 00 Black, 01 White, 10 Yellow, 11 Red
CodeOf(color) ==
    CASE color = "Black" -> 0
      [] color = "White" -> 1
      [] color = "Yellow" -> 2
      [] color = "Red" -> 3

\* ---------------------------------------------------------------------
\* update_frames: transposition of the buffer into the panel's byte stream
\* ---------------------------------------------------------------------
\* for ly_as_rx in 0..250
PanelRows == 250

\* for lx_as_ry_block in (0..128).step_by(4)
PanelCols == 128

\* variant: the panel column is not mirrored
SlotXYUnmirrored(ry, rx) == <<ry, rx>>

\* buffer coordinate read for panel position (ry, rx): x = ry, y = 121 - rx
SlotXY(ry, rx) == <<ry, 121 - rx>>

\* variant: the padding slots carry code 2
SlotCodePadYellow(d, ry, rx) ==
    IF ry < 250 /\ rx < 122
    THEN PixelCode(d, SlotXY(ry, rx)[1], SlotXY(ry, rx)[2])
    ELSE 2

\* color_bits of panel position (ry, rx)
SlotCode(d, ry, rx) ==
    IF ry < 250 /\ rx < 122
    THEN PixelCode(d, SlotXY(ry, rx)[1], SlotXY(ry, rx)[2])
    ELSE 1

\* byte = (byte << 2) | color_bits, on a u8
Pack(byte, code) == ((byte * 4) % 256) + code

\* the byte written for row ly and block start lx (a multiple of 4)
FrameByte(d, ly, lx) ==
    Pack(Pack(Pack(Pack(0, SlotCode(d, ly, lx)), SlotCode(d, ly, lx + 1)),
              SlotCode(d, ly, lx + 2)), SlotCode(d, ly, lx + 3))

BytesPerRow == PanelCols \div 4

FrameLen == PanelRows * BytesPerRow

\* the k-th byte of the stream, k = 0 .. FrameLen-1, in loop order
StreamByte(d, k) == FrameByte(d, k \div BytesPerRow, 4 * (k % BytesPerRow))

\* ---------------------------------------------------------------------
\* Jd79661: the driver's operations as sequences of primitive I/O calls
\* ---------------------------------------------------------------------
Level == {"low", "high"}

SetPin(p, l) == [k |-> "pin", a |-> p, v |-> l]

DelayMs(ms) == [k |-> "delay", a |-> "ms", v |-> ms]

WaitBusy == [k |-> "wait", a |-> "busy", v |-> 0]

SpiWrite(role, bytes) == [k |-> "write", a |-> role, v |-> bytes]

BulkLoop == [k |-> "bulk", a |-> "data", v |-> 0]

ReturnOk == [k |-> "ret", a |-> "Ok", v |-> 0]

\* variant: chip-select stays low between the opcode and its payload
CommandOneSelect(cmd, data) ==
    <<SetPin("dc", "low"), SetPin("cs", "low"), SpiWrite("opcode", <<cmd>>)>>
      \o (IF data # << >>
          THEN <<SetPin("dc", "high"), SpiWrite("payload", data)>>
          ELSE << >>)
      \o <<SetPin("cs", "high")>>

\* Jd79661::command(spi, cmd, data); a failed write returns its error (?)
Command(cmd, data) ==
    <<SetPin("dc", "low"), SetPin("cs", "low"), SpiWrite("opcode", <<cmd>>),
      SetPin("cs", "high")>>
      \o (IF data # << >>
          THEN <<SetPin("dc", "high"), SetPin("cs", "low"),
                 SpiWrite("payload", data), SetPin("cs", "high")>>
          ELSE << >>)

\* variant: the resolution payload with width and height exchanged
InitTableTypo ==
    << <<77, <<120>>>>, <<0, <<143, 41>>>>, <<1, <<7, 0>>>>,
       <<3, <<16, 84, 68>>>>, <<6, <<5, 0, 63, 10, 37, 18, 26>>>>,
       <<80, <<55>>>>, <<96, <<2, 2, 2>>>>, <<97, <<0, 250, 0, 128>>>>,
       <<231, <<28>>>>, <<227, <<34>>>>, <<180, <<208>>>>, <<181, <<3>>>>,
       <<233, <<1>>>>, <<48, <<8>>>> >>

\* the configuration commands of Jd79661::new, between SWRESET and Power ON
InitTable ==
    << <<77, <<120>>>>,                          \* 0x4D: 0x78
       <<0, <<143, 41>>>>,                       \* 0x00: 0x8F 0x29
       <<1, <<7, 0>>>>,                          \* 0x01: 0x07 0x00
       <<3, <<16, 84, 68>>>>,                    \* 0x03: 0x10 0x54 0x44
       <<6, <<5, 0, 63, 10, 37, 18, 26>>>>,      \* 0x06: 05 00 3F 0A 25 12 1A
       <<80, <<55>>>>,                           \* 0x50: 0x37
       <<96, <<2, 2, 2>>>>,                      \* 0x60: 02 02 02
       <<97, <<0, 128, 0, 250>>>>,               \* 0x61: 00 80 00 FA
       <<231, <<28>>>>,                          \* 0xE7: 0x1C
       <<227, <<34>>>>,                          \* 0xE3: 0x22
       <<180, <<208>>>>,                         \* 0xB4: 0xD0
       <<181, <<3>>>>,                           \* 0xB5: 0x03
       <<233, <<1>>>>,                           \* 0xE9: 0x01
       <<48, <<8>>>> >>                          \* 0x30: 0x08

RECURSIVE Commands(_)
Commands(table) ==
    IF table = << >> THEN << >>
    ELSE Command(Head(table)[1], Head(table)[2]) \o Commands(Tail(table))

\* variant: no busy-wait after the software reset
NewBodyNoWait ==
    <<SetPin("rst", "low"), DelayMs(10), SetPin("rst", "high"), DelayMs(10),
      WaitBusy>>
      \o Command(1, << >>)
      \o Commands(InitTable)
      \o Command(4, << >>)
      \o <<WaitBusy, ReturnOk>>

\* Jd79661::new
NewBody ==
    <<SetPin("rst", "low"), DelayMs(10), SetPin("rst", "high"), DelayMs(10),
      WaitBusy>>
      \o Command(1, << >>)         \* SWRESET
      \o <<WaitBusy>>
      \o Commands(InitTable)
      \o Command(4, << >>)         \* Power ON
      \o <<WaitBusy, ReturnOk>>

\* variant: chip-select is not raised after the last data byte
UpdateFramesBodyNoRelease ==
    Command(16, << >>)
      \o <<SetPin("dc", "high"), SetPin("cs", "low"), BulkLoop, ReturnOk>>

\* Jd79661::update_frames
UpdateFramesBody ==
    Command(16, << >>)             \* 0x10
      \o <<SetPin("dc", "high"), SetPin("cs", "low"), BulkLoop,
           SetPin("cs", "high"), ReturnOk>>

\* variant: the refresh returns without waiting for the panel
DisplayFrameBodyNoWait ==
    Command(18, << >>)
      \o <<ReturnOk>>

\* variant: the panel is powered on again before each refresh
DisplayFrameBodyPowerOn ==
    Command(4, << >>)
      \o <<WaitBusy>>
      \o Command(18, << >>)
      \o <<WaitBusy, ReturnOk>>

\* Jd79661::display_frame
DisplayFrameBody ==
    Command(18, << >>)             \* 0x12
      \o <<WaitBusy, ReturnOk>>

Body(c) ==
    CASE c = "new" -> NewBody
      [] c = "update_frames" -> UpdateFramesBody
      [] c = "display_frame" -> DisplayFrameBody

\* consecutive low readings of the busy line that one wait_busy is given
MaxPolls == 1

\* ---------------------------------------------------------------------
\* Inputs of the buffer operations
\* ---------------------------------------------------------------------
\* in-bounds points: the origin, the last two bytes' worth of row 0 and the
\* start of row 1, and an interior point
InPoints == {<<0, 0>>, <<248, 0>>, <<0, 1>>, <<5, 10>>}

\* x = WIDTH, y = HEIGHT, x < 0, y < 0
OutPoints == {<<250, 0>>, <<0, 122>>, <<-1, 0>>, <<0, -1>>}

Pixels == {[x |-> p[1], y |-> p[2], color |-> c] :
              p \in InPoints \cup OutPoints, c \in QuadColor}

Px(x, y, c) == [x |-> x, y |-> y, color |-> c]

\* the pixel iterators handed to draw_iter: every single pixel, every two
\* colours in turn at one pixel, and a few longer sequences
PixelInputs ==
    {<<px>> : px \in Pixels}
      \cup {<<Px(5, 10, c1), Px(5, 10, c2)>> : c1, c2 \in QuadColor}
      \cup {<<Px(248, 0, "Black"), Px(0, 1, "Red")>>,
            <<Px(0, 0, "Black"), Px(0, 0, "Red")>>,
            <<Px(5, 10, "Yellow"), Px(250, 0, "Black"), Px(5, 10, "Yellow")>>}

AllCoords == (0 .. (WIDTH - 1)) \X (0 .. (HEIGHT - 1))

\* ---------------------------------------------------------------------
\* State
\* ---------------------------------------------------------------------
VARIABLES
    display,   \* the DisplayBuffer: [bw, red, yellow]
    lastOp,    \* history: the last buffer operation, its argument, whether it
               \* repeats the one before, whether it changed the buffer, and
               \* what it returned
    drv,       \* "none": no driver yet; "ready": new returned Ok(driver);
               \* "failed": new returned Err
    call,      \* the driver operation in progress, or "idle"
    ip,        \* position in Body(call)
    sub,       \* low readings so far in wait_busy / bytes written so far in
               \* the loop of update_frames
    cs,        \* level last driven on chip-select
    dc,        \* level last driven on data/command
    rst,       \* level last driven on reset
    pinErr,    \* history: some set_low / set_high has returned Err
    trace,     \* history: the I/O calls of the current (or last) operation,
               \* except the data bytes of the loop of update_frames
    lastWrite, \* history: the last spi.write of the current (or last) operation
    sent,      \* history: data bytes the loop of update_frames has written
    result,    \* history: the last operation that returned, and "Ok" or "Err"
    error,     \* the SPI::Error carried by that Err, "none" otherwise
    frames,    \* history: the buffers given to the last two update_frames calls
    coordA,    \* a buffer coordinate <<x, y>> handed to the address computation
    coordB,    \* a second buffer coordinate
    posA,      \* <<idx, bit>> computed for coordA, << >> before
    posB,      \* <<idx, bit>> computed for coordB, << >> before
    by         \* which code computed posA and posB, "none" before

bufVars == <<display, lastOp>>

drvVars == <<drv, call, ip, sub, cs, dc, rst, pinErr, trace, lastWrite, sent,
             result, error, frames>>

addrVars == <<coordA, coordB, posA, posB, by>>

vars == <<display, lastOp, drv, call, ip, sub, cs, dc, rst, pinErr, trace,
          lastWrite, sent, result, error, frames, coordA, coordB, posA, posB, by>>

NoResult == [op |-> "none", res |-> "none"]

\* the errors spi.write can return (values of SPI::Error)
SpiErrors == {"Overrun", "ModeFault"}

NoWrite == [role |-> "none", bytes |-> << >>, cs |-> "high", dc |-> "low", ok |-> TRUE,
            err |-> "none"]

InitDrv ==
    /\ drv = "none"
    /\ call = "idle"
    /\ ip = 0
    /\ sub = 0
    /\ cs \in Level
    /\ dc \in Level
    /\ rst \in Level
    /\ pinErr = FALSE
    /\ trace = << >>
    /\ lastWrite = NoWrite
    /\ sent = 0
    /\ result = NoResult
    /\ error = "none"
    /\ frames = << >>

\* no address computation is observed
NoAddr ==
    /\ coordA = <<0, 0>>
    /\ coordB = <<0, 0>>
    /\ posA = << >>
    /\ posB = << >>
    /\ by = "none"

InitDisplay ==
    /\ display = NewBuffer
    /\ lastOp = [kind |-> "new", pixels |-> << >>, again |-> FALSE,
                 changed |-> FALSE, ret |-> "none"]

\* the buffer alone: no driver operation runs
InitBuf ==
    /\ InitDisplay
    /\ InitDrv
    /\ cs = "high" /\ dc = "high" /\ rst = "high"
    /\ NoAddr

\* DrawTarget::draw_iter called with a pixel sequence
Draw ==
    \E pixels \in PixelInputs :
        /\ display' = DrawIter(display, pixels)
        /\ lastOp' = [kind |-> "draw", pixels |-> pixels,
                      again |-> (lastOp.kind = "draw" /\ lastOp.pixels = pixels),
                      changed |-> (display' # display), ret |-> "Ok"]
        /\ UNCHANGED <<drvVars, addrVars>>

\* DisplayBuffer::clear called
Clear ==
    /\ display' = ClearBuffer(display)
    /\ lastOp' = [kind |-> "clear", pixels |-> << >>,
                  again |-> (lastOp.kind = "clear"),
                  changed |-> (display' # display), ret |-> "none"]
    /\ UNCHANGED <<drvVars, addrVars>>

NextBuf == Draw \/ Clear

SpecBuf == InitBuf /\ [][NextBuf]_vars

\* ---------------------------------------------------------------------
\* The driver's operations, one primitive I/O call per step
\* ---------------------------------------------------------------------
\* the buffers handed to update_frames: a fresh one, one with a single
\* Black pixel at (5,10), one drawn in all colours, and one whose public
\* plane bytes were set directly to all eight bit combinations (row 0,
\* x = 0 .. 7)
SingleBlack == <<Px(5, 10, "Black")>>

Colourful ==
    <<Px(0, 0, "Black"), Px(1, 0, "Red"), Px(2, 0, "Yellow"), Px(3, 0, "White"),
      Px(249, 121, "Red"), Px(249, 0, "Yellow"), Px(0, 121, "Black")>>

RawBuffer == [bw |-> (0 :> 15), red |-> (0 :> 51), yellow |-> (0 :> 85)]

FrameBuffers ==
    {NewBuffer, DrawIter(NewBuffer, SingleBlack), DrawIter(NewBuffer, Colourful),
     RawBuffer}

Cur == Body(call)[ip]

\* a logged pin, delay or busy-line call
Io(e, a, v) == [e |-> e, a |-> a, v |-> v]

\* a logged spi.write, with the line levels at the time of the call
Ev(e, a, v) == [e |-> e, a |-> a, v |-> v, cs |-> cs, dc |-> dc]

Begin(c) ==
    /\ call = "idle"
    /\ call' = c
    /\ ip' = 1
    /\ sub' = 0
    /\ trace' = << >>
    /\ lastWrite' = NoWrite
    /\ sent' = 0
    /\ result' = NoResult
    /\ error' = "none"
    /\ UNCHANGED <<drv, cs, dc, rst, pinErr, lastOp, addrVars>>

\* Jd79661::new is called
CallNew == drv = "none" /\ Begin("new") /\ UNCHANGED <<display, frames>>

\* update_frames is called on a constructed driver with a buffer
CallUpdateFrames ==
    /\ drv = "ready"
    /\ Begin("update_frames")
    /\ \E d \in FrameBuffers :
          /\ display' = d
          /\ frames' = IF frames = << >> THEN <<d>> ELSE <<frames[Len(frames)], d>>

\* display_frame is called on a constructed driver
CallDisplayFrame ==
    drv = "ready" /\ Begin("display_frame") /\ UNCHANGED <<display, frames>>

\* variant: an error of the pin is returned as the operation's error
PinStepPropagates ==
    /\ call # "idle"
    /\ Cur.k = "pin"
    /\ \E ok \in BOOLEAN :
          /\ pinErr' = (pinErr \/ ~ok)
          /\ IF ok
             THEN /\ ip' = ip + 1
                  /\ UNCHANGED <<drv, call, sub, result, error>>
             ELSE /\ call' = "idle"
                  /\ ip' = 0
                  /\ sub' = 0
                  /\ result' = [op |-> call, res |-> "Err"]
                  /\ error' = "Pin"
                  /\ drv' = IF call = "new" THEN "failed" ELSE drv
    /\ cs' = IF Cur.a = "cs" THEN Cur.v ELSE cs
    /\ dc' = IF Cur.a = "dc" THEN Cur.v ELSE dc
    /\ rst' = IF Cur.a = "rst" THEN Cur.v ELSE rst
    /\ trace' = Append(trace, Io("pin", Cur.a, Cur.v))
    /\ UNCHANGED <<lastWrite, sent, bufVars, frames, addrVars>>

\* let _ = pin.set_low() / set_high(): the Result is discarded
PinStep ==
    /\ call # "idle"
    /\ Cur.k = "pin"
    /\ \E ok \in BOOLEAN : pinErr' = (pinErr \/ ~ok)
    /\ cs' = IF Cur.a = "cs" THEN Cur.v ELSE cs
    /\ dc' = IF Cur.a = "dc" THEN Cur.v ELSE dc
    /\ rst' = IF Cur.a = "rst" THEN Cur.v ELSE rst
    /\ trace' = Append(trace, Io("pin", Cur.a, Cur.v))
    /\ ip' = ip + 1
    /\ UNCHANGED <<drv, call, sub, lastWrite, sent, result, error, bufVars, frames, addrVars>>

\* delay.delay_ms(n)
DelayStep ==
    /\ call # "idle"
    /\ Cur.k = "delay"
    /\ trace' = Append(trace, Io("delay", "ms", Cur.v))
    /\ ip' = ip + 1
    /\ UNCHANGED <<drv, call, sub, cs, dc, rst, pinErr, lastWrite, sent, result,
                   error, bufVars, frames, addrVars>>

\* variant: a failed read of the line counts as busy (unwrap_or(true))
PollBusyErrIsBusy ==
    /\ call # "idle"
    /\ Cur.k = "wait"
    /\ \E r \in {"low", "high", "err"} :
          IF r \in {"low", "err"}
          THEN /\ sub < MaxPolls
               /\ trace' = trace \o <<Io("busy", "is_low", r), Io("delay", "ms", 1)>>
               /\ sub' = sub + 1
               /\ ip' = ip
          ELSE /\ trace' = Append(trace, Io("busy", "is_low", r))
               /\ sub' = 0
               /\ ip' = ip + 1
    /\ UNCHANGED <<drv, call, cs, dc, rst, pinErr, lastWrite, sent, result, error,
                   bufVars, frames, addrVars>>

\* variant: wait_busy delays before each read of the line
PollBusyDelayFirst ==
    /\ call # "idle"
    /\ Cur.k = "wait"
    /\ \E r \in {"low", "high", "err"} :
          IF r = "low"
          THEN /\ sub < MaxPolls
               /\ trace' = trace \o <<Io("delay", "ms", 1), Io("busy", "is_low", r)>>
               /\ sub' = sub + 1
               /\ ip' = ip
          ELSE /\ trace' = trace \o <<Io("delay", "ms", 1), Io("busy", "is_low", r)>>
               /\ sub' = 0
               /\ ip' = ip + 1
    /\ UNCHANGED <<drv, call, cs, dc, rst, pinErr, lastWrite, sent, result, error,
                   bufVars, frames, addrVars>>

\* variant: wait_busy gives up once the line has read low MaxPolls times
PollBusyGivesUp ==
    /\ call # "idle"
    /\ Cur.k = "wait"
    /\ \E r \in {"low", "high", "err"} :
          IF r = "low" /\ sub < MaxPolls
          THEN /\ trace' = trace \o <<Io("busy", "is_low", r), Io("delay", "ms", 1)>>
               /\ sub' = sub + 1
               /\ ip' = ip
          ELSE /\ trace' = Append(trace, Io("busy", "is_low", r))
               /\ sub' = 0
               /\ ip' = ip + 1
    /\ UNCHANGED <<drv, call, cs, dc, rst, pinErr, lastWrite, sent, result, error,
                   bufVars, frames, addrVars>>

\* one evaluation of the loop condition of wait_busy:
\* busy.is_low().unwrap_or(false), and delay_ms(1) when it is true
PollBusy ==
    /\ call # "idle"
    /\ Cur.k = "wait"
    /\ \E r \in {"low", "high", "err"} :
          IF r = "low"
          THEN /\ sub < MaxPolls
               /\ trace' = trace \o <<Io("busy", "is_low", r), Io("delay", "ms", 1)>>
               /\ sub' = sub + 1
               /\ ip' = ip
          ELSE /\ trace' = Append(trace, Io("busy", "is_low", r))
               /\ sub' = 0
               /\ ip' = ip + 1
    /\ UNCHANGED <<drv, call, cs, dc, rst, pinErr, lastWrite, sent, result, error,
                   bufVars, frames, addrVars>>

\* variant: a construction that failed still hands out a driver
FinishKeepsDriver(res, e) ==
    /\ call' = "idle"
    /\ ip' = 0
    /\ sub' = 0
    /\ result' = [op |-> call, res |-> res]
    /\ error' = e
    /\ drv' = IF call = "new" THEN "ready" ELSE drv

\* the operation returns: Ok at its end, Err(e) from a failed write (?)
Finish(res, e) ==
    /\ call' = "idle"
    /\ ip' = 0
    /\ sub' = 0
    /\ result' = [op |-> call, res |-> res]
    /\ error' = e
    /\ drv' = IF call = "new" THEN (IF res = "Ok" THEN "ready" ELSE "failed") ELSE drv

\* variant: the result of spi.write is dropped and the command goes on
WriteStepIgnoresError ==
    /\ call # "idle"
    /\ Cur.k = "write"
    /\ \E out \in {"Ok"} \cup SpiErrors :
          /\ lastWrite' = [role |-> Cur.a, bytes |-> Cur.v, cs |-> cs, dc |-> dc,
                           ok |-> (out = "Ok"),
                           err |-> (IF out = "Ok" THEN "none" ELSE out)]
          /\ trace' = Append(trace, [Ev("write", Cur.a, Cur.v) EXCEPT !.e =
                                       IF out = "Ok" THEN "write" ELSE "write_failed"])
          /\ ip' = ip + 1
          /\ UNCHANGED <<drv, call, sub, result, error>>
    /\ UNCHANGED <<cs, dc, rst, pinErr, sent, bufVars, frames, addrVars>>

\* spi.write(..)? inside command
WriteStep ==
    /\ call # "idle"
    /\ Cur.k = "write"
    /\ \E out \in {"Ok"} \cup SpiErrors :
          /\ lastWrite' = [role |-> Cur.a, bytes |-> Cur.v, cs |-> cs, dc |-> dc,
                           ok |-> (out = "Ok"),
                           err |-> (IF out = "Ok" THEN "none" ELSE out)]
          /\ trace' = Append(trace, [Ev("write", Cur.a, Cur.v) EXCEPT !.e =
                                       IF out = "Ok" THEN "write" ELSE "write_failed"])
          /\ IF out = "Ok"
             THEN /\ ip' = ip + 1
                  /\ UNCHANGED <<drv, call, sub, result, error>>
             ELSE Finish("Err", out)
    /\ UNCHANGED <<cs, dc, rst, pinErr, sent, bufVars, frames, addrVars>>

\* variant: the driver keeps the frame of the call before and sends it
BulkStepStale ==
    /\ call # "idle"
    /\ Cur.k = "bulk"
    /\ \E out \in {"Ok"} \cup SpiErrors :
          /\ lastWrite' = [role |-> "data",
                           bytes |-> <<StreamByte(IF Len(frames) = 2 THEN frames[1]
                                                  ELSE display, sub)>>,
                           cs |-> cs, dc |-> dc, ok |-> (out = "Ok"),
                           err |-> (IF out = "Ok" THEN "none" ELSE out)]
          /\ IF out = "Ok"
             THEN /\ sent' = sent + 1
                  /\ sub' = IF sub + 1 < FrameLen THEN sub + 1 ELSE 0
                  /\ ip' = IF sub + 1 < FrameLen THEN ip ELSE ip + 1
                  /\ UNCHANGED <<drv, call, result, error>>
             ELSE /\ sent' = sent
                  /\ Finish("Err", out)
    /\ UNCHANGED <<cs, dc, rst, pinErr, trace, bufVars, frames, addrVars>>

\* spi.write(&[byte])? in the loop of update_frames
BulkStep ==
    /\ call # "idle"
    /\ Cur.k = "bulk"
    /\ \E out \in {"Ok"} \cup SpiErrors :
          /\ lastWrite' = [role |-> "data", bytes |-> <<StreamByte(display, sub)>>,
                           cs |-> cs, dc |-> dc, ok |-> (out = "Ok"),
                           err |-> (IF out = "Ok" THEN "none" ELSE out)]
          /\ IF out = "Ok"
             THEN /\ sent' = sent + 1
                  /\ sub' = IF sub + 1 < FrameLen THEN sub + 1 ELSE 0
                  /\ ip' = IF sub + 1 < FrameLen THEN ip ELSE ip + 1
                  /\ UNCHANGED <<drv, call, result, error>>
             ELSE /\ sent' = sent
                  /\ Finish("Err", out)
    /\ UNCHANGED <<cs, dc, rst, pinErr, trace, bufVars, frames, addrVars>>

\* Ok(driver) / Ok(())
ReturnStep ==
    /\ call # "idle"
    /\ Cur.k = "ret"
    /\ Finish("Ok", "none")
    /\ UNCHANGED <<cs, dc, rst, pinErr, trace, lastWrite, sent, bufVars, frames,
                   addrVars>>

InitDriver ==
    /\ InitDisplay
    /\ InitDrv
    /\ NoAddr

NextDriver ==
    \/ CallNew
    \/ CallUpdateFrames
    \/ CallDisplayFrame
    \/ PinStep
    \/ DelayStep
    \/ PollBusy
    \/ WriteStep
    \/ BulkStep
    \/ ReturnStep

SpecDriver == InitDriver /\ [][NextDriver]_vars

\* the operations that wait for the panel, run to completion: every I/O
\* call of an operation in progress is eventually made, and the busy line
\* does not read low for ever
BusyReleased == PollBusy /\ ip' = ip + 1

NextWait ==
    \/ CallNew
    \/ CallDisplayFrame
    \/ PinStep
    \/ DelayStep
    \/ PollBusy
    \/ WriteStep
    \/ ReturnStep

SpecWait ==
    /\ InitDriver
    /\ [][NextWait]_vars
    /\ WF_vars(PinStep) /\ WF_vars(DelayStep) /\ WF_vars(WriteStep)
    /\ WF_vars(ReturnStep) /\ WF_vars(PollBusy)
    /\ SF_vars(BusyReleased)

\* ---------------------------------------------------------------------
\* Properties of construction and of command framing
\* ---------------------------------------------------------------------
IsWrite(ev) == ev.e = "write" \/ ev.e = "write_failed"

\* the spi.write calls of the trace, each as <<data/command level, bytes>>
Wire(tr) ==
    LET w == SelectSeq(tr, IsWrite)
    IN [i \in 1 .. Len(w) |-> <<w[i].dc, w[i].v>>]

NewReturnedOk == call = "idle" /\ result = [op |-> "new", res |-> "Ok"]

\* the opcodes of the claim with the payloads of lib.rs:50-86
ExpectedInit ==
    << <<1, << >>>>, <<77, <<120>>>>, <<0, <<143, 41>>>>, <<1, <<7, 0>>>>,
       <<3, <<16, 84, 68>>>>, <<6, <<5, 0, 63, 10, 37, 18, 26>>>>,
       <<80, <<55>>>>, <<96, <<2, 2, 2>>>>, <<97, <<0, 128, 0, 250>>>>,
       <<231, <<28>>>>, <<227, <<34>>>>, <<180, <<208>>>>, <<181, <<3>>>>,
       <<233, <<1>>>>, <<48, <<8>>>>, <<4, << >>>> >>

RECURSIVE ExpectedWire(_)
ExpectedWire(cmds) ==
    IF cmds = << >> THEN << >>
    ELSE LET c == Head(cmds)
         IN <<(<<"low", <<c[1]>>>>)>>
              \o (IF c[2] = << >> THEN << >> ELSE <<(<<"high", c[2]>>)>>)
              \o ExpectedWire(Tail(cmds))

\* C8: a successful Jd79661::new has written exactly the opcodes 0x01, 0x4D,
\* 0x00, 0x01, 0x03, 0x06, 0x50, 0x60, 0x61, 0xE7, 0xE3, 0xB4, 0xB5, 0xE9,
\* 0x30, 0x04 in that order, each followed by its literal payload (none for
\* the first 0x01 and for 0x04), and no other bytes.
C8_InitSequence ==
    NewReturnedOk => Wire(trace) = ExpectedWire(ExpectedInit)

NeverBusy(tr) == \A i \in 1 .. Len(tr) : tr[i].e = "busy" => tr[i].v = "high"

\* new has returned Ok on a panel that never read busy
C8_Witness == NewReturnedOk /\ NeverBusy(trace) /\ ~pinErr

\* the reads of the busy line that ended a wait_busy
WaitEnds(tr) == {i \in 1 .. Len(tr) : tr[i].e = "busy" /\ tr[i].v # "low"}

WritesBefore(tr, i) == Len(SelectSeq(SubSeq(tr, 1, i), IsWrite))

InNew == call = "new" \/ (call = "idle" /\ result.op = "new")

\* C9: during construction the reset line is driven low, then high, with a
\* 10 ms delay after each, before any SPI byte is written; the busy line is
\* read only before the software-reset opcode, between it and the first
\* configuration command, and after the power-on opcode; a successful
\* construction has completed exactly these three busy-waits.
C9_ResetAndWaits ==
    InNew =>
        /\ \A i \in 1 .. Len(trace) :
              /\ (i = 1) => (trace[i].e = "pin" /\ trace[i].a = "rst" /\ trace[i].v = "low")
              /\ (i = 2) => (trace[i].e = "delay" /\ trace[i].v = 10)
              /\ (i = 3) => (trace[i].e = "pin" /\ trace[i].a = "rst" /\ trace[i].v = "high")
              /\ (i = 4) => (trace[i].e = "delay" /\ trace[i].v = 10)
              /\ (i > 4) => ~(trace[i].e = "pin" /\ trace[i].a = "rst")
              /\ trace[i].e = "busy" => WritesBefore(trace, i) \in {0, 1, 30}
        /\ NewReturnedOk =>
              /\ Cardinality(WaitEnds(trace)) = 3
              /\ {WritesBefore(trace, i) : i \in WaitEnds(trace)} = {0, 1, 30}
              /\ Wire(trace)[1] = <<"low", <<1>>>>
              /\ Wire(trace)[2] = <<"low", <<77>>>>
              /\ Wire(trace)[30] = <<"low", <<4>>>>
              /\ Len(Wire(trace)) = 30

\* new has returned Ok after a busy-wait that saw the line low
C9_Witness ==
    /\ NewReturnedOk
    /\ \E i \in 1 .. Len(trace) : trace[i].e = "busy" /\ trace[i].v = "low"

\* C10: every spi.write is made with chip-select low; an opcode write is one
\* byte with data/command low; a payload write is non-empty, is made with
\* data/command high and follows an opcode write after chip-select was
\* raised; chip-select is raised right after each write that succeeded; a
\* command with an empty payload (0x10, 0x12) has no payload write.
C10_TwoPhase ==
    /\ lastWrite.role # "none" =>
          /\ lastWrite.cs = "low"
          /\ lastWrite.bytes # << >>
          /\ lastWrite.role = "opcode" => (lastWrite.dc = "low" /\ Len(lastWrite.bytes) = 1)
          /\ lastWrite.role \in {"payload", "data"} => lastWrite.dc = "high"
    /\ \A i \in 1 .. Len(trace) :
          IsWrite(trace[i]) =>
            /\ trace[i].cs = "low"
            /\ trace[i].v # << >>
            /\ trace[i].a = "opcode" => (trace[i].dc = "low" /\ Len(trace[i].v) = 1)
            /\ trace[i].a = "payload" =>
                  /\ trace[i].dc = "high"
                  /\ i > 4
                  /\ trace[i - 4].e = "write" /\ trace[i - 4].a = "opcode"
                  /\ trace[i - 3].e = "pin" /\ trace[i - 3].a = "cs" /\ trace[i - 3].v = "high"
                  /\ trace[i - 2].e = "pin" /\ trace[i - 2].a = "dc" /\ trace[i - 2].v = "high"
                  /\ trace[i - 1].e = "pin" /\ trace[i - 1].a = "cs" /\ trace[i - 1].v = "low"
            /\ (trace[i].e = "write" /\ i < Len(trace)) =>
                  (trace[i + 1].e = "pin" /\ trace[i + 1].a = "cs" /\ trace[i + 1].v = "high")
            /\ (trace[i].e = "write" /\ i = Len(trace)) => (call # "idle" /\ Cur.k = "pin")
    /\ (call = "idle" /\ result = [op |-> "update_frames", res |-> "Ok"]) =>
          Wire(trace) = << <<"low", <<16>>>> >>
    /\ (call = "idle" /\ result = [op |-> "display_frame", res |-> "Ok"]) =>
          Wire(trace) = << <<"low", <<18>>>> >>

\* all three kinds of write have been made: update_frames has returned Ok
C10_Witness ==
    /\ call = "idle"
    /\ result = [op |-> "update_frames", res |-> "Ok"]
    /\ sent = FrameLen
    /\ lastWrite.role = "data"

\* ---------------------------------------------------------------------
\* The address computation alone, on pairs of in-bounds coordinates
\* ---------------------------------------------------------------------
SampleXs == {0, 1, 7, 8, 247, 248, 249}

SampleYs == {0, 1, 2, 121}

SampleCoords == SampleXs \X SampleYs

InitAddr ==
    /\ InitDisplay
    /\ InitDrv
    /\ cs = "high" /\ dc = "high" /\ rst = "high"
    /\ coordA \in SampleCoords
    /\ coordB \in SampleCoords
    /\ posA = << >>
    /\ posB = << >>
    /\ by = "none"

\* draw_iter addresses both coordinates
AddressByDraw ==
    /\ by = "none"
    /\ InBounds(coordA[1], coordA[2])
    /\ InBounds(coordB[1], coordB[2])
    /\ posA' = <<DrawIdx(coordA[1], coordA[2]), DrawBit(coordA[1])>>
    /\ posB' = <<DrawIdx(coordB[1], coordB[2]), DrawBit(coordB[1])>>
    /\ by' = "draw_iter"
    /\ UNCHANGED <<bufVars, drvVars, coordA, coordB>>

\* the address update_frames computes at panel position (ry, rx)
SlotAddr(ry, rx) ==
    LET x == SlotXY(ry, rx)[1]
        y == SlotXY(ry, rx)[2]
    IN <<FrameIdx(x, y), FrameBit(x)>>

\* update_frames addresses both coordinates: (x, y) is read at panel
\* position ry = x, rx = 121 - y
AddressByFrame ==
    /\ by = "none"
    /\ coordA[1] < 250 /\ 121 - coordA[2] < 122
    /\ coordB[1] < 250 /\ 121 - coordB[2] < 122
    /\ posA' = SlotAddr(coordA[1], 121 - coordA[2])
    /\ posB' = SlotAddr(coordB[1], 121 - coordB[2])
    /\ by' = "update_frames"
    /\ UNCHANGED <<bufVars, drvVars, coordA, coordB>>

NextAddr == AddressByDraw \/ AddressByFrame

SpecAddr == InitAddr /\ [][NextAddr]_vars

\* C1: any two distinct in-bounds coordinates are stored at distinct
\* (byte index, bit) positions, as draw_iter and update_frames address them.
C1_DistinctPositions ==
    (by # "none" /\ coordA # coordB) => posA # posB

\* ---------------------------------------------------------------------
\* Properties of the DisplayBuffer
\* ---------------------------------------------------------------------
\* C2: a draw of one in-bounds pixel stores its colour at its coordinate
\* and changes the colour stored at no other in-bounds coordinate (so the
\* colour stored at a coordinate is that of the last draw addressed to it).
C2_LastDrawWins ==
    [][(/\ lastOp'.kind = "draw"
        /\ Len(lastOp'.pixels) = 1
        /\ InBounds(lastOp'.pixels[1].x, lastOp'.pixels[1].y))
          => \A c \in AllCoords :
                PixelCode(display', c[1], c[2]) =
                    IF c = <<lastOp'.pixels[1].x, lastOp'.pixels[1].y>>
                    THEN CodeOf(lastOp'.pixels[1].color)
                    ELSE PixelCode(display, c[1], c[2])]_vars

\* C3: at every in-bounds pixel at most one of the three plane bits (bw,
\* red, yellow) is 0.
C3_Exclusive ==
    \A c \in AllCoords :
        LET idx == FrameIdx(c[1], c[2])
            bit == FrameBit(c[1])
            b == Load(display.bw, idx)
            r == Load(display.red, idx)
            y == Load(display.yellow, idx)
        IN \/ (b = 255 /\ r = 255 /\ y = 255)
           \/ GetBit(b, bit) + GetBit(r, bit) + GetBit(y, bit) >= 2

\* a call that drew Black and then Red at one pixel has returned
C3_Witness ==
    /\ lastOp.kind = "draw"
    /\ lastOp.pixels = <<Px(0, 0, "Black"), Px(0, 0, "Red")>>
    /\ GetBit(Load(display.red, 0), 7) = 0

\* the out-of-bounds condition in the words of the claim
OutOfBounds(px) == px.x >= 250 \/ px.y >= 122 \/ px.x < 0 \/ px.y < 0

AllOut(pixels) == \A i \in 1 .. Len(pixels) : OutOfBounds(pixels[i])

\* C4: a draw whose pixels all lie outside the canvas returns Ok and leaves
\* all three planes unchanged, for every colour and every prior buffer state.
C4_OutOfBoundsNoOp ==
    [][(lastOp'.kind = "draw" /\ AllOut(lastOp'.pixels))
          => (display' = display /\ lastOp'.ret = "Ok")]_vars

\* an out-of-bounds draw has acted on a buffer that holds drawn pixels
C4_Witness ==
    /\ lastOp.kind = "draw"
    /\ AllOut(lastOp.pixels)
    /\ lastOp.pixels[1].color = "Black"
    /\ display # NewBuffer

\* C5: drawing the same in-bounds pixel with the same colour a second time
\* leaves all three planes as the first draw left them.
C5_Idempotent ==
    [][(/\ lastOp'.kind = "draw"
        /\ lastOp'.again
        /\ Len(lastOp'.pixels) = 1
        /\ InBounds(lastOp'.pixels[1].x, lastOp'.pixels[1].y))
          => display' = display]_vars

\* the same non-White pixel has been drawn twice in a row
C5_Witness ==
    /\ lastOp.kind = "draw"
    /\ lastOp.again
    /\ Len(lastOp.pixels) = 1
    /\ InBounds(lastOp.pixels[1].x, lastOp.pixels[1].y)
    /\ lastOp.pixels[1].color = "Red"

\* C6: after clear() every byte of bw, red and yellow is 0xFF, the state is
\* that of new(), and every in-bounds pixel reads as White.
C6_ClearAllOnes ==
    lastOp.kind = "clear" =>
        /\ \A i \in 0 .. (BUF_SIZE - 1) :
              /\ Load(display.bw, i) = 255
              /\ Load(display.red, i) = 255
              /\ Load(display.yellow, i) = 255
        /\ display = NewBuffer
        /\ \A c \in AllCoords : PixelCode(display, c[1], c[2]) = CodeOf("White")

\* clear() has acted on a buffer that held drawn pixels
C6_Witness == lastOp.kind = "clear" /\ lastOp.changed

LastPixel == lastOp.pixels[Len(lastOp.pixels)]

\* C7: after an in-bounds draw of colour c at (x,y), in byte (y*250 + x) / 8
\* at bit 7 - (x % 8) the plane matching c holds 0 and the other planes
\* hold 1; Black at (0,0) clears bit 7 of bw[0] and leaves bit 7 of red[0]
\* and yellow[0] at 1.
C7_PackedPosition ==
    /\ (lastOp.kind = "draw" /\ InBounds(LastPixel.x, LastPixel.y)) =>
          LET idx == (LastPixel.y * 250 + LastPixel.x) \div 8
              bit == 7 - (LastPixel.x % 8)
              c == LastPixel.color
          IN /\ GetBit(Load(display.bw, idx), bit) = (IF c = "Black" THEN 0 ELSE 1)
             /\ GetBit(Load(display.red, idx), bit) = (IF c = "Red" THEN 0 ELSE 1)
             /\ GetBit(Load(display.yellow, idx), bit) = (IF c = "Yellow" THEN 0 ELSE 1)
    /\ (lastOp.kind = "draw" /\ lastOp.pixels = <<Px(0, 0, "Black")>>) =>
          /\ Load(display.bw, 0) < 128
          /\ Load(display.red, 0) >= 128
          /\ Load(display.yellow, 0) >= 128

\* Black has been drawn at (0,0)
C7_Witness ==
    /\ lastOp.kind = "draw"
    /\ lastOp.pixels = <<Px(0, 0, "Black")>>
    /\ Load(display.bw, 0) = 127

\* C23: drawing colour c1 and then c2 at one in-bounds coordinate leaves the
\* buffer as drawing c2 alone does, for every prior buffer; a White draw
\* leaves all three plane bits of its pixel at 1.
C23_LastColourWins ==
    [][(/\ lastOp'.kind = "draw"
        /\ InBounds(lastOp'.pixels[Len(lastOp'.pixels)].x,
                    lastOp'.pixels[Len(lastOp'.pixels)].y))
          => LET n == Len(lastOp'.pixels)
                 p == lastOp'.pixels[n]
             IN /\ (n = 2 /\ lastOp'.pixels[1].x = p.x /\ lastOp'.pixels[1].y = p.y)
                      => display' = DrawIter(display, <<p>>)
                /\ n = 1 =>
                      \A c1 \in QuadColor :
                          DrawIter(display, <<Px(p.x, p.y, c1), p>>) = display'
                /\ p.color = "White" =>
                      LET idx == (p.y * 250 + p.x) \div 8
                          bit == 7 - (p.x % 8)
                      IN /\ GetBit(Load(display'.bw, idx), bit) = 1
                         /\ GetBit(Load(display'.red, idx), bit) = 1
                         /\ GetBit(Load(display'.yellow, idx), bit) = 1]_vars

\* Red and then White have been drawn at (5,10) in one call, on a buffer
\* that held a colour other than White there
C23_Witness ==
    /\ lastOp.kind = "draw"
    /\ lastOp.pixels = <<Px(5, 10, "Red"), Px(5, 10, "White")>>
    /\ lastOp.changed
    /\ Load(display.yellow, 313) = 255

\* ---------------------------------------------------------------------
\* Properties of error propagation
\* ---------------------------------------------------------------------
Returned(op, res) == call = "idle" /\ result = [op |-> op, res |-> res]

Prefix(p, q) == Len(p) <= Len(q) /\ p = SubSeq(q, 1, Len(p))

\* C11: a spi.write that fails during Jd79661::new ends the construction:
\* new returns Err with the error of that write, no driver exists, the
\* failed write is the last thing the construction did, and what was written
\* up to it is a prefix of the initialisation sequence.
C11_NewFailure ==
    InNew =>
        /\ \A i \in 1 .. Len(trace) :
              trace[i].e = "write_failed" =>
                  /\ i = Len(trace)
                  /\ Returned("new", "Err")
                  /\ drv = "failed"
                  /\ ~lastWrite.ok
                  /\ lastWrite.bytes = trace[i].v
                  /\ error \in SpiErrors
                  /\ error = lastWrite.err
                  /\ Prefix(Wire(trace), ExpectedWire(ExpectedInit))
        /\ Returned("new", "Err") =>
              (trace # << >> /\ trace[Len(trace)].e = "write_failed")
        /\ drv = "ready" => Returned("new", "Ok")

\* new has returned Err from the payload write of a configuration command
C11_Witness ==
    /\ Returned("new", "Err")
    /\ lastWrite.role = "payload"
    /\ Len(Wire(trace)) = 7
    /\ error = "ModeFault"

\* C12: in new, update_frames and display_frame a failed spi.write is the
\* operation's last I/O call (no further write, busy read or pin change, no
\* retry) and the operation returns Err with that write's error; an
\* operation that returned Ok had no failed write.
C12_FailurePropagates ==
    /\ ~lastWrite.ok =>
          /\ call = "idle"
          /\ result.res = "Err"
          /\ result.op \in {"new", "update_frames", "display_frame"}
          /\ error = lastWrite.err
          /\ error \in SpiErrors
          /\ lastWrite.role # "data" =>
                (trace # << >> /\ trace[Len(trace)].e = "write_failed"
                   /\ trace[Len(trace)].v = lastWrite.bytes)
          /\ lastWrite.role = "data" => (sent < FrameLen /\ Len(trace) = 6)
    /\ \A i \in 1 .. Len(trace) :
          trace[i].e = "write_failed" => (i = Len(trace) /\ ~lastWrite.ok)
    /\ (call = "idle" /\ result.res = "Err") => ~lastWrite.ok
    /\ (call = "idle" /\ result.res = "Ok") => (lastWrite.ok /\ error = "none")
    /\ call # "idle" => (lastWrite.ok /\ error = "none")

\* update_frames has returned Err from a data byte after some were sent
C12_Witness ==
    /\ Returned("update_frames", "Err")
    /\ lastWrite.role = "data"
    /\ sent = 33

\* ---------------------------------------------------------------------
\* Properties of the frame transfer
\* ---------------------------------------------------------------------
Kind(ev) == <<ev.e, ev.a, ev.v>>

\* C13: a successful update_frames has written opcode 0x10 alone, then
\* 8000 data bytes with data/command high and chip-select low, chip-select
\* having been lowered once before the first byte and raised only after the
\* last one.
C13_FrameTransfer ==
    /\ (call = "update_frames" /\ Cur.k = "bulk") =>
          /\ cs = "low" /\ dc = "high"
          /\ [i \in 1 .. Len(trace) |-> Kind(trace[i])] =
                << <<"pin", "dc", "low">>, <<"pin", "cs", "low">>,
                   <<"write", "opcode", <<16>>>>, <<"pin", "cs", "high">>,
                   <<"pin", "dc", "high">>, <<"pin", "cs", "low">> >>
          /\ sent < 8000
    /\ lastWrite.role = "data" =>
          (lastWrite.cs = "low" /\ lastWrite.dc = "high" /\ Len(lastWrite.bytes) = 1)
    /\ Returned("update_frames", "Ok") =>
          /\ sent = 8000
          /\ lastWrite.role = "data"
          /\ cs = "high"
          /\ [i \in 1 .. Len(trace) |-> Kind(trace[i])] =
                << <<"pin", "dc", "low">>, <<"pin", "cs", "low">>,
                   <<"write", "opcode", <<16>>>>, <<"pin", "cs", "high">>,
                   <<"pin", "dc", "high">>, <<"pin", "cs", "low">>,
                   <<"pin", "cs", "high">> >>

\* update_frames has returned Ok for a buffer that is not blank
C13_Witness ==
    /\ Returned("update_frames", "Ok")
    /\ display # NewBuffer
    /\ sent = FrameLen

\* the position in the stream of the data byte held by lastWrite
DataIndex == IF lastWrite.ok THEN sent - 1 ELSE sent

\* the 2-bit code in slot i (0 = most significant pair) of byte b
Slot(b, i) == (b \div (4 ^ (3 - i))) % 4

BlackAt510 == DrawIter(NewBuffer, SingleBlack)

\* C14: data byte number ly*32 + g carries in slot i, most significant pair
\* first, the code of buffer pixel (ly, 121 - (4g + i)) whenever
\* 4g + i <= 121; for the buffer with one Black pixel at (5,10) the slot of
\* sub-column 111 of row 5 holds 0 and every other such slot holds 1.
C14_Transposition ==
    lastWrite.role = "data" =>
        LET ly == DataIndex \div 32
            g == DataIndex % 32
            b == lastWrite.bytes[1]
        IN /\ ly \in 0 .. 249
           /\ b \in 0 .. 255
           /\ \A i \in 0 .. 3 :
                 (4 * g + i <= 121) =>
                    /\ Slot(b, i) = PixelCode(display, ly, 121 - (4 * g + i))
                    /\ display = BlackAt510 =>
                          Slot(b, i) = (IF ly = 5 /\ 4 * g + i = 111 THEN 0 ELSE 1)

\* the byte of row 5 that holds sub-column 111 has been written for the
\* buffer with the single Black pixel
C14_Witness ==
    /\ display = BlackAt510
    /\ lastWrite.role = "data" /\ lastWrite.ok
    /\ sent = 5 * 32 + 27 + 1
    /\ lastWrite.bytes = <<84>>

\* the wire code of each combination of plane bits <<bw, red, yellow>>
CodeTable ==
    (<<0, 0, 0>> :> 3) @@ (<<0, 0, 1>> :> 3) @@ (<<1, 0, 0>> :> 3) @@
    (<<1, 0, 1>> :> 3) @@ (<<0, 1, 0>> :> 2) @@ (<<1, 1, 0>> :> 2) @@
    (<<0, 1, 1>> :> 0) @@ (<<1, 1, 1>> :> 1)

\* C15: whatever the three plane bits of a valid pixel are, its slot holds
\* 3 if the red bit is 0, else 2 if the yellow bit is 0, else 0 if the bw
\* bit is 0, else 1.
C15_CodePriority ==
    lastWrite.role = "data" =>
        LET ly == DataIndex \div 32
            g == DataIndex % 32
            b == lastWrite.bytes[1]
        IN \A i \in 0 .. 3 :
              (4 * g + i <= 121) =>
                 LET x == ly
                     y == 121 - (4 * g + i)
                     idx == (y * 250 + x) \div 8
                     bit == 7 - (x % 8)
                 IN Slot(b, i) = CodeTable[<<GetBit(Load(display.bw, idx), bit),
                                             GetBit(Load(display.red, idx), bit),
                                             GetBit(Load(display.yellow, idx), bit)>>]

\* the byte holding pixel (2,0) of the buffer whose planes were set directly
\* has been written: there bw = 0, red = 1, yellow = 0 and the code is 2
C15_Witness ==
    /\ display = RawBuffer
    /\ lastWrite.role = "data" /\ lastWrite.ok
    /\ sent = 2 * 32 + 30 + 1
    /\ Slot(lastWrite.bytes[1], 1) = 2
    /\ GetBit(Load(display.bw, 0), 5) = 0
    /\ GetBit(Load(display.red, 0), 5) = 1
    /\ GetBit(Load(display.yellow, 0), 5) = 0

\* C16: every slot of a panel column 4g + i >= 122 holds code 2, whatever
\* the buffer holds.
C16_PaddingYellow ==
    lastWrite.role = "data" =>
        LET g == DataIndex % 32
            b == lastWrite.bytes[1]
        IN \A i \in 0 .. 3 : (4 * g + i >= 122) => Slot(b, i) = 2

\* C17: for a buffer as DisplayBuffer::new or clear leaves it, every data
\* byte update_frames writes is 0b01010101, padding included, and a
\* successful update_frames has written 8000 of them.
C17_BlankFrame ==
    /\ \A d \in FrameBuffers : ClearBuffer(d) = NewBuffer
    /\ (display = NewBuffer /\ lastWrite.role = "data") => lastWrite.bytes = <<85>>
    /\ (display = NewBuffer /\ Returned("update_frames", "Ok")) => sent = 8000

\* update_frames has returned Ok for the fresh buffer, the last byte being
\* one of padding slots only
C17_Witness ==
    /\ display = NewBuffer
    /\ Returned("update_frames", "Ok")
    /\ sent = 8000
    /\ lastWrite.bytes = <<85>>

\* ---------------------------------------------------------------------
\* Properties of the refresh, the busy-wait and the constructed driver
\* ---------------------------------------------------------------------
InDisplayFrame == call = "display_frame" \/ (call = "idle" /\ result.op = "display_frame")

\* C18: display_frame writes opcode 0x12 alone and reads the busy line only
\* after that write succeeded; when it has returned Ok the last thing it did
\* was a read of the busy line that did not report low, every earlier read
\* having reported low and been followed by a 1 ms delay.
C18_RefreshThenWait ==
    InDisplayFrame =>
        /\ Prefix(Wire(trace), << <<"low", <<18>>>> >>)
        /\ \A i \in 1 .. Len(trace) :
              trace[i].e = "busy" =>
                 /\ \E j \in 1 .. i - 1 : Kind(trace[j]) = <<"write", "opcode", <<18>>>>
                 /\ trace[i].v = "low" =>
                       (i < Len(trace) /\ Kind(trace[i + 1]) = <<"delay", "ms", 1>>)
                 /\ trace[i].v # "low" => i = Len(trace)
        /\ Returned("display_frame", "Ok") =>
              /\ Wire(trace) = << <<"low", <<18>>>> >>
              /\ trace[Len(trace)].e = "busy"
              /\ trace[Len(trace)].v \in {"high", "err"}

\* display_frame has returned Ok after the line read low, then high
C18_Witness ==
    /\ Returned("display_frame", "Ok")
    /\ Len(trace) >= 3
    /\ Kind(trace[Len(trace) - 2]) = <<"busy", "is_low", "low">>
    /\ Kind(trace[Len(trace)]) = <<"busy", "is_low", "high">>

C20_ReadyStays ==
    [][drv = "ready" =>
          /\ drv' = "ready"
          /\ rst' = rst
          /\ call' \in {"idle", "update_frames", "display_frame"}
          /\ (call' # "idle" \/ result'.op # "new") =>
                /\ \A i \in 1 .. Len(trace') :
                      /\ ~(trace'[i].e = "pin" /\ trace'[i].a = "rst")
                      /\ trace'[i].e = "delay" => trace'[i].v = 1
                      /\ IsWrite(trace'[i]) =>
                            (trace'[i].a = "opcode" /\ trace'[i].v \in {<<16>>, <<18>>})
                /\ lastWrite'.role \in {"none", "opcode", "data"}
                /\ lastWrite'.role = "opcode" => lastWrite'.bytes \in {<<16>>, <<18>>}]_vars

\* a constructed driver has refreshed the panel and is still constructed
C20_Witness ==
    /\ drv = "ready"
    /\ Returned("display_frame", "Ok")
    /\ rst = "high"
    /\ Wire(trace) = << <<"low", <<18>>>> >>

\* ---------------------------------------------------------------------
\* Properties of the driver as a transcoder
\* ---------------------------------------------------------------------
\* byte k of the frame of buffer d, from the plane bits of d alone
BufferByte(d, k) ==
    LET code(i) ==
          LET col == 4 * (k % 32) + i
              x == k \div 32
              y == 121 - col
              idx == (y * 250 + x) \div 8
              bit == 7 - (x % 8)
          IN IF col <= 121
             THEN CodeTable[<<GetBit(Load(d.bw, idx), bit), GetBit(Load(d.red, idx), bit),
                              GetBit(Load(d.yellow, idx), bit)>>]
             ELSE 1
    IN 64 * code(0) + 16 * code(1) + 4 * code(2) + code(3)

\* C21: every data byte update_frames writes is determined by the buffer of
\* this call and the byte's position, whatever buffers the calls before
\* were given and however they and the display_frame calls ended (so equal
\* buffers give equal streams); no step of update_frames changes the buffer.
C21_Stateless ==
    [][/\ call = "update_frames" => (display' = display /\ frames' = frames)
       /\ call' = "update_frames" =>
             (frames' # << >> /\ display' = frames'[Len(frames')])
       /\ (call = "update_frames" /\ lastWrite'.role = "data") =>
             lastWrite'.bytes =
                <<BufferByte(display, IF lastWrite'.ok THEN sent' - 1 ELSE sent')>>]_vars

\* the call before was given the buffer with the Black pixel at (5,10), this
\* one a fresh buffer, and the byte where the two frames differ was written
C21_Witness ==
    /\ Len(frames) = 2
    /\ frames[1] = BlackAt510
    /\ display = NewBuffer
    /\ lastWrite.role = "data" /\ lastWrite.ok
    /\ sent = 5 * 32 + 27 + 1
    /\ lastWrite.bytes = <<85>>

\* ---------------------------------------------------------------------
\* Properties of termination and of the discarded errors
\* ---------------------------------------------------------------------
IsLowRead(ev) == Kind(ev) = <<"busy", "is_low", "low">>

IsPollDelay(ev) == Kind(ev) = <<"delay", "ms", 1>>

\* every low reading is followed at once by one 1 ms delay, and a 1 ms delay
\* is made nowhere else
DelayPerLow ==
    \A i \in 1 .. Len(trace) :
        /\ IsLowRead(trace[i]) => (i < Len(trace) /\ IsPollDelay(trace[i + 1]))
        /\ IsPollDelay(trace[i]) => (i > 1 /\ IsLowRead(trace[i - 1]))

\* C22: when the busy line does not read low for ever, a Jd79661::new or
\* display_frame in progress returns Ok unless one of its SPI writes
\* failed; wait_busy makes one 1 ms delay after each low reading and no
\* other, so none when its first reading is not low.
C22_Terminates ==
    /\ [](call \in {"new", "display_frame"} => DelayPerLow)
    /\ (call = "new") ~> (Returned("new", "Ok") \/ ~lastWrite.ok)
    /\ (call = "display_frame") ~> (Returned("display_frame", "Ok") \/ ~lastWrite.ok)

\* new has returned Ok after low readings, with as many 1 ms delays
C22_Witness ==
    /\ Returned("new", "Ok")
    /\ Len(SelectSeq(trace, IsLowRead)) >= 2
    /\ Len(SelectSeq(trace, IsPollDelay)) = Len(SelectSeq(trace, IsLowRead))
    /\ trace[5].e = "busy" /\ trace[5].v = "high"

\* C28: a read of the busy line that returns an error ends wait_busy at
\* once, with no delay and no further read, and the operation goes on; the
\* error of the read is never the operation's error.
C28_BusyErrorIgnored ==
    /\ []((call = "idle" /\ result.res = "Err") =>
             (error \in SpiErrors /\ trace[Len(trace)].e # "busy"))
    /\ [][(/\ call # "idle"
           /\ Cur.k = "wait"
           /\ Len(trace') > Len(trace)
           /\ Kind(trace'[Len(trace) + 1]) = <<"busy", "is_low", "err">>)
             => /\ Len(trace') = Len(trace) + 1
                /\ call' = call
                /\ ip' = ip + 1
                /\ Body(call)[ip'].k \in {"pin", "ret"}
                /\ result' = result /\ error' = error]_vars

\* new has returned Ok although each of its three reads of the busy line
\* returned an error
C28_Witness ==
    /\ Returned("new", "Ok")
    /\ Len(SelectSeq(trace, LAMBDA ev : Kind(ev) = <<"busy", "is_low", "err">>)) = 3
    /\ Len(SelectSeq(trace, LAMBDA ev : ev.e = "busy")) = 3

\* C29: a call that sets the chip-select, data/command or reset line goes
\* on to the next call of the operation whether it failed or not, so the
\* write after it is attempted; an operation that returned Err did so from
\* a failed spi.write, with that write's error.
C29_PinErrorsDiscarded ==
    /\ []((call = "idle" /\ result.res = "Err") =>
             (~lastWrite.ok /\ error = lastWrite.err /\ error \in SpiErrors))
    /\ [][(call # "idle" /\ Cur.k = "pin")
             => /\ call' = call
                /\ ip' = ip + 1
                /\ result' = result /\ error' = error /\ drv' = drv]_vars

\* new has returned Ok, with all its writes made, although one of its pin
\* calls failed
C29_Witness ==
    /\ Returned("new", "Ok")
    /\ pinErr
    /\ Len(Wire(trace)) = 30

\* ---------------------------------------------------------------------
\* Properties relating draw_iter and update_frames
\* ---------------------------------------------------------------------
MoveLast(seq, i) == SubSeq(seq, 1, i - 1) \o SubSeq(seq, i + 1, Len(seq)) \o <<seq[i]>>

\* draw sequences on a fresh buffer: the single Black pixel, White drawn at
\* (0,1) after Black at (248,0), and the pixels of Colourful with each one in
\* turn drawn last
FrameDraws ==
    {SingleBlack, <<Px(248, 0, "Black"), Px(0, 1, "White")>>}
      \cup {MoveLast(Colourful, i) : i \in 1 .. Len(Colourful)}

\* each with the buffer it gives and its last pixel
LastDraws ==
    {[buf |-> DrawIter(NewBuffer, p), px |-> p[Len(p)]] : p \in FrameDraws}

\* the wire code the claim gives each colour
WireCode == ("Black" :> 0) @@ ("White" :> 1) @@ ("Yellow" :> 2) @@ ("Red" :> 3)

\* C24: when the last pixel drawn into the buffer is (x, y) in colour c,
\* update_frames writes as byte x*32 + (121-y)/4 a byte whose slot
\* (121-y) mod 4 holds 0 for Black, 1 for White, 2 for Yellow, 3 for Red.
C24_RoundTrip ==
    /\ \A r \in LastDraws : r.buf \in FrameBuffers /\ InBounds(r.px.x, r.px.y)
    /\ {r.px.color : r \in LastDraws} = QuadColor
    /\ lastWrite.role = "data" =>
          \A r \in LastDraws :
              (display = r.buf /\ DataIndex = r.px.x * 32 + (121 - r.px.y) \div 4)
                 => Slot(lastWrite.bytes[1], (121 - r.px.y) % 4) = WireCode[r.px.color]

\* the byte holding (249,121), drawn Red, has been written
C24_Witness ==
    /\ display = DrawIter(NewBuffer, MoveLast(Colourful, 5))
    /\ lastWrite.role = "data" /\ lastWrite.ok
    /\ sent = 249 * 32 + 0 + 1
    /\ Slot(lastWrite.bytes[1], 0) = 3

\* C25: whenever new, update_frames or display_frame has returned, with Ok
\* or with an SPI error, chip-select is high.
C25_SelectReleased ==
    (call = "idle" /\ result.op # "none") => cs = "high"

PanelSlots == (0 .. 249) \X (0 .. 127)

AllInRange ==
    /\ \A c \in AllCoords :
          InBounds(c[1], c[2]) =>
             (DrawIdx(c[1], c[2]) \in 0 .. 3812 /\ DrawBit(c[1]) \in 0 .. 7)
    /\ \A s \in PanelSlots :
          (s[1] < 250 /\ s[2] < 122) =>
             (SlotAddr(s[1], s[2])[1] \in 0 .. 3812 /\ SlotAddr(s[1], s[2])[2] \in 0 .. 7)

\* C27: the byte index (y*250 + x) / 8 that draw_iter and update_frames
\* compute is below BUF_SIZE = 3813 and the bit index is in 0 .. 7, at the
\* coordinates just addressed and at every other accepted coordinate.
C27_InRange ==
    /\ BUF_SIZE = 3813
    /\ AllInRange
    /\ by # "none" =>
          /\ posA[1] >= 0 /\ posA[1] < BUF_SIZE /\ posA[2] \in 0 .. 7
          /\ posB[1] >= 0 /\ posB[1] < BUF_SIZE /\ posB[2] \in 0 .. 7
          /\ posA[1] = (coordA[2] * 250 + coordA[1]) \div 8

\* the last pixel of the canvas has been addressed, in the last byte
C27_Witness ==
    /\ by # "none"
    /\ coordA = <<249, 121>>
    /\ posA = <<BUF_SIZE - 1, 6>>

====
